---- MODULE Spec2Model ----
(***************************************************************************)
(* cig-loop `boilerplate` command (src/src/boilerplate.ts): fetch a named  *)
(* template set from the remote repository and reconcile it with the local *)
(* directory of the same name.  One run of runBoilerplate is modelled as a *)
(* state machine whose program counter follows the awaits of the function. *)
(***************************************************************************)
EXTENDS Integers, Sequences, FiniteSets, TLC

(* ------------------------------ bounds -------------------------------- *)

\* longest manifest (number of remote files of a template set)
MaxFiles == 3
\* modification times a pre-existing local file may carry: 0..MaxMtime
MaxMtime == 1

(* ------------------------------ values -------------------------------- *)

None == "<undefined>"

\* A path is a sequence of string pieces; its text is their concatenation.
\* "PROMPT.md" is always a piece of its own, so a path text ends with
\* PROMPT.md exactly when its last piece is "PROMPT.md".
\* The file trees a remote template set may hold.
TemplateTrees ==
    { { <<"a.txt">>, <<"b.txt">>, <<"c.txt">> },
      { <<"docs", "/", "PROMPT.md">>, <<"MY_", "PROMPT.md">>, <<"README.md">> } }

Paths == UNION TemplateTrees

\* What the remote tree holds at each path of the template set.
RemoteContent(path) ==
    CASE path = <<"a.txt">> -> "X"
      [] path = <<"b.txt">> -> "Y"
      [] path = <<"c.txt">> -> "Z"
      [] path = <<"docs", "/", "PROMPT.md">> -> "P"
      [] path = <<"MY_", "PROMPT.md">> -> "M"
      [] OTHER -> "R"

\* A local content that no remote file has.
LocalOnlyContent == "Q"

\* The template sets the remote repository lists when it has any.
RemoteBoilerplates == <<"research">>

\* Command lines: process.argv.slice(3).
ArgvSet ==
    { <<>>,
      <<"--name", "research">>,
      <<"-n", "nosuch">>,
      <<"--name">>,
      <<"--name", "">>,
      <<"-n", "-l">>,
      <<"--list">>,
      <<"-l", "-n", "research">>,
      <<"--help">> }

\* Local file states: no file, a file whose read fails, a readable file.
Absent == [kind |-> "absent", content |-> "", mtime |-> 0]
Unreadable == [kind |-> "unreadable", content |-> "", mtime |-> 0]
File(c, t) == [kind |-> "file", content |-> c, mtime |-> t]

\* The modification time a write of this run gives a file.
Now == MaxMtime + 1

LocalStatesFor(path) ==
    {Absent, Unreadable}
      \cup { File(c, t) : c \in {RemoteContent(path), LocalOnlyContent},
                          t \in 0..MaxMtime }

\* The local directories in which only the paths in S may have a file.
LocalDirs(S) ==
    LET all == UNION { LocalStatesFor(p) : p \in S }
    IN  { [p \in Paths |-> IF p \in S THEN g[p] ELSE Absent] :
            g \in { h \in [S -> all] : \A p \in S : h[p] \in LocalStatesFor(p) } }

Range(s) == { s[i] : i \in 1..Len(s) }

\* Injective sequences over S of length at most n.
InjSeqs(S, n) ==
    UNION { { s \in [1..k -> S] : \A i, j \in 1..k : i # j => s[i] # s[j] }
            : k \in 0..n }

PathsOf(entries) == { entries[i].relativePath : i \in 1..Len(entries) }

(* ------------------------------ state --------------------------------- *)

VARIABLES
    args,            \* process.argv.slice(3)
    manifest,        \* remote: ordered paths of the template set
    fs,              \* local: state of outputDir/<path> for every path
    dirExists,       \* local: whether outputDir exists
    pc,              \* position in runBoilerplate
    exitCode,        \* -1 while running, else the process exit code
    failure,         \* which stage ended the run early, "none" otherwise
    dirName,         \* the chosen template set (= outputDir)
    files,           \* result of fetchBoilerplateFiles
    idx,             \* classification loop index into files
    content,         \* downloaded content of files[idx]
    newFiles, identicalFiles, changedFiles,
    prompt,          \* what p.multiselect was shown with, if it was shown
    selected,        \* the paths the operator chose in p.multiselect
    filesToOverwrite,
    filesToWrite,
    widx,            \* write loop index into filesToWrite
    written,         \* paths Bun.write has been completed for, in order
    skipNotice,      \* paths listed by the non-interactive skip notice
    summary,         \* status lines of the summary loop, in order
    fs0, dir0,       \* the local state when the run started
    run,             \* 1 for the first run, 2 for a re-run
    prev             \* buckets and decisions of the previous completed run

vars == << args, manifest, fs, dirExists, pc, exitCode, failure, dirName, files,
           idx, content, newFiles, identicalFiles, changedFiles, selected,
           filesToOverwrite, filesToWrite, widx, written, skipNotice, summary,
           fs0, dir0, run, prev, prompt >>

runVars == << dirName, files, idx, content, newFiles, identicalFiles,
              changedFiles, selected, filesToOverwrite, filesToWrite, widx, written,
              skipNotice, summary, prompt >>

(* --------------------------- pure functions --------------------------- *)

\* sha256: a collision-free digest; equal digests exactly for equal text.
sha256(c) == <<"sha256", c>>

\* parseBoilerplateArgs: the loop over args from index i with name so far.
\* Yields the name, None when no name was given, or "<help>" (process.exit).
RECURSIVE ParseFrom(_, _, _)
ParseFrom(a, i, name) ==
    IF i > Len(a) THEN name
    ELSE IF a[i] \in {"--name", "-n"} /\ i + 1 <= Len(a) /\ a[i + 1] # ""
           THEN ParseFrom(a, i + 2, a[i + 1])
    ELSE IF a[i] \in {"--list", "-l"} THEN ParseFrom(a, i + 1, name)
    ELSE IF a[i] \in {"--help", "-h"} THEN "<help>"
    ELSE ParseFrom(a, i + 1, name)

parseBoilerplateArgs(a) == ParseFrom(a, 1, None)

shouldList(a) == \E i \in 1..Len(a) : a[i] \in {"--list", "-l"}

requestedName == parseBoilerplateArgs(args)
listOnly == shouldList(args)

\* interactive, were a requested name left out of it
interactive_ignoresName == ~listOnly

interactive == requestedName = None /\ ~listOnly

\* destPath = `${outputDir}/${relativePath}`
DestPath(dir, path) == <<dir, "/">> \o path

\* await destFile.exists()
FileExists(local) == local.kind # "absent"

\* SameDigest, were the modification time part of the comparison
SameDigest_mtime(remote, local) ==
    sha256(remote) = sha256(local.content) /\ local.mtime = 0

\* sha256(content) === sha256(existingContent)
SameDigest(remote, local) == sha256(remote) = sha256(local.content)

FileEntry(path, c) == [relativePath |-> path, content |-> c]

\* OverwriteFilter, were the selection not applied
OverwriteFilter_all(changed, selectedPaths) == changed

\* changedFiles.filter((f) => selectedPaths.has(f.relativePath))
OverwriteFilter(changed, selectedPaths) ==
    LET keep(f) == f.relativePath \in selectedPaths
    IN  SelectSeq(changed, keep)

\* the paths of a sequence of file entries, in order
PathSeq(entries) == [i \in 1..Len(entries) |-> entries[i].relativePath]

\* EndsWithPromptMd, were the file name compared instead of the path's end
EndsWithPromptMd_basename(path) ==
    /\ Len(path) >= 1
    /\ path[Len(path)] = "PROMPT.md"
    /\ Len(path) = 1 \/ path[Len(path) - 1] = "/"

\* f.relativePath.endsWith("PROMPT.md")
EndsWithPromptMd(path) == Len(path) >= 1 /\ path[Len(path)] = "PROMPT.md"

\* options: changedFiles.map(value: f.relativePath)
PromptOptions(changed) == PathSeq(changed)

\* initialValues: the changed files whose path ends with PROMPT.md
InitialValues(changed) ==
    LET isPrompt(f) == EndsWithPromptMd(f.relativePath)
    IN  PathSeq(SelectSeq(changed, isPrompt))

\* no p.multiselect so far
NoPrompt == [shown |-> FALSE, options |-> <<>>, initialValues |-> <<>>]

\* WriteList, were the approved overwrites left out
WriteList_newOnly(new, over) == new

\* WriteList, were the approved overwrites put first
WriteList_overwritesFirst(new, over) == over \o new

\* [...newFiles, ...filesToOverwrite]
WriteList(new, over) == new \o over

\* StatusOf, were an identical file not told apart from a written one
StatusOf_noUnchanged(path, identical, changed, over) ==
    LET skippedPaths == { changed[i].relativePath :
                            i \in { j \in 1..Len(changed) : changed[j] \notin Range(over) } }
    IN  IF path \in skippedPaths THEN "skipped" ELSE "written"

\* One line of the summary loop.
StatusOf(path, identical, changed, over) ==
    LET isIdentical == \E i \in 1..Len(identical) : identical[i].relativePath = path
        skippedPaths == { changed[i].relativePath :
                            i \in { j \in 1..Len(changed) : changed[j] \notin Range(over) } }
    IN  IF isIdentical THEN "unchanged"
        ELSE IF path \in skippedPaths THEN "skipped"
        ELSE "written"

\* SummaryFrom, were the lines printed bucket by bucket
SummaryFrom_bucketOrder(fl, i, dir, identical, changed, over) ==
    LET order == [k \in 1..Len(newFiles) |-> newFiles[k].relativePath]
                   \o [k \in 1..Len(identical) |-> identical[k].relativePath]
                   \o [k \in 1..Len(changed) |-> changed[k].relativePath]
    IN  [k \in 1..Len(order) |->
            [path |-> DestPath(dir, order[k]),
             status |-> StatusOf(order[k], identical, changed, over)]]

\* The summary loop over files, from index i on.
RECURSIVE SummaryFrom(_, _, _, _, _, _)
SummaryFrom(fl, i, dir, identical, changed, over) ==
    IF i > Len(fl) THEN <<>>
    ELSE << [path |-> DestPath(dir, fl[i]),
             status |-> StatusOf(fl[i], identical, changed, over)] >>
         \o SummaryFrom(fl, i + 1, dir, identical, changed, over)

(* ------------------------------- Init --------------------------------- *)

NoPrev == [completed |-> FALSE, new |-> {}, identical |-> {}, changed |-> {},
           overwritten |-> {}]

Init ==
    /\ args \in ArgvSet
    /\ manifest \in UNION { InjSeqs(tree, MaxFiles) : tree \in TemplateTrees }
    /\ fs \in LocalDirs(Range(manifest))
    /\ dirExists \in BOOLEAN
    /\ (\E p \in Paths : fs[p] # Absent) => dirExists
    /\ pc = "start"
    /\ exitCode = -1
    /\ failure = "none"
    /\ dirName = None
    /\ files = <<>>
    /\ idx = 0
    /\ content = None
    /\ newFiles = <<>>
    /\ identicalFiles = <<>>
    /\ changedFiles = <<>>
    /\ selected = {}
    /\ filesToOverwrite = <<>>
    /\ filesToWrite = <<>>
    /\ widx = 0
    /\ written = <<>>
    /\ skipNotice = <<>>
    /\ summary = <<>>
    /\ prompt = NoPrompt
    /\ fs0 = fs
    /\ dir0 = dirExists
    /\ run = 1
    /\ prev = NoPrev

(* ------------------------------ actions ------------------------------- *)

\* process.exit(code) on the path named by stage
Exit(code, stage) ==
    /\ pc' = "exit"
    /\ exitCode' = code
    /\ failure' = stage

Running(next) ==
    /\ pc' = next
    /\ UNCHANGED <<exitCode, failure>>

env == << args, manifest, fs, dirExists, fs0, dir0, run, prev >>

\* parseBoilerplateArgs: --help prints the usage and exits
ParseArgs ==
    /\ pc = "start"
    /\ IF requestedName = "<help>" THEN Exit(0, "help") ELSE Running("fetchList")
    /\ UNCHANGED <<env, runVars>>

\* fetchBoilerplateList and the checks on its result
FetchList ==
    /\ pc = "fetchList"
    /\ \E outcome \in {"fail", "empty", "ok"} :
          CASE outcome = "fail" -> Exit(1, "fetchList")
            [] outcome = "empty" -> Exit(0, "noBoilerplates")
            [] OTHER -> Running("listed")
    /\ UNCHANGED <<env, runVars>>

\* --list, --name <name>, or the interactive p.select
ChooseSet ==
    /\ pc = "listed"
    /\ IF listOnly
         THEN Exit(0, "list") /\ UNCHANGED dirName
       ELSE IF requestedName # None
         THEN IF requestedName \notin Range(RemoteBoilerplates)
                THEN Exit(1, "notFound") /\ UNCHANGED dirName
                ELSE Running("fetchFiles") /\ dirName' = requestedName
       ELSE \E picked \in Range(RemoteBoilerplates) \cup {"<cancel>"} :
              IF picked = "<cancel>"
                THEN Exit(0, "selectCancel") /\ UNCHANGED dirName
                ELSE Running("fetchFiles") /\ dirName' = picked
    /\ UNCHANGED <<env, files, idx, content, newFiles, identicalFiles,
                   changedFiles, selected, filesToOverwrite, filesToWrite, widx,
                   written, skipNotice, summary, prompt>>

\* fetchBoilerplateFiles and the check for an empty set
FetchFiles ==
    /\ pc = "fetchFiles"
    /\ \E ok \in BOOLEAN :
          IF ~ok THEN Exit(1, "fetchFiles") /\ UNCHANGED files
          ELSE /\ files' = manifest
               /\ IF Len(manifest) = 0 THEN Exit(0, "noFiles") ELSE Running("mkdir")
    /\ UNCHANGED <<env, dirName, idx, content, newFiles, identicalFiles,
                   changedFiles, selected, filesToOverwrite, filesToWrite, widx,
                   written, skipNotice, summary, prompt>>

\* mkdir -p outputDir
Mkdir ==
    /\ pc = "mkdir"
    /\ dirExists' = TRUE
    /\ idx' = 1
    /\ Running("download")
    /\ UNCHANGED <<args, manifest, fs, fs0, dir0, run, prev, dirName, files,
                   content, newFiles, identicalFiles, changedFiles, selected,
                   filesToOverwrite, filesToWrite, widx, written, skipNotice,
                   summary, prompt>>

\* the end of one iteration of the classification loop
NextFile ==
    /\ idx' = idx + 1
    /\ IF idx = Len(files) THEN Running("resolve") ELSE Running("download")

\* downloadFile(file.downloadUrl)
Download ==
    /\ pc = "download"
    /\ \E ok \in BOOLEAN :
          IF ok THEN content' = RemoteContent(files[idx]) /\ Running("exists")
                ELSE Exit(1, "download") /\ UNCHANGED content
    /\ UNCHANGED <<env, dirName, files, idx, newFiles, identicalFiles,
                   changedFiles, selected, filesToOverwrite, filesToWrite, widx,
                   written, skipNotice, summary, prompt>>

\* Exists, were a new file written as soon as it is found to be new
Exists_eager ==
    /\ pc = "exists"
    /\ IF FileExists(fs[files[idx]])
         THEN Running("text") /\ UNCHANGED <<idx, newFiles, fs, written>>
         ELSE /\ newFiles' = Append(newFiles, FileEntry(files[idx], content))
              /\ fs' = [fs EXCEPT ![files[idx]] = File(content, Now)]
              /\ written' = Append(written, files[idx])
              /\ NextFile
    /\ UNCHANGED <<args, manifest, dirExists, fs0, dir0, run, prev, dirName,
                   files, content, identicalFiles, changedFiles, selected,
                   filesToOverwrite, filesToWrite, widx, skipNotice, summary, prompt>>

\* await destFile.exists(), and the else branch that records a new file
Exists ==
    /\ pc = "exists"
    /\ IF FileExists(fs[files[idx]])
         THEN Running("text") /\ UNCHANGED <<idx, newFiles>>
         ELSE /\ newFiles' = Append(newFiles, FileEntry(files[idx], content))
              /\ NextFile
    /\ UNCHANGED <<env, dirName, files, content, identicalFiles, changedFiles,
                   selected, filesToOverwrite, filesToWrite, widx, written,
                   skipNotice, summary, prompt>>

\* Text, were the changed branch not an else of the identical branch
Text_fallthrough ==
    /\ pc = "text"
    /\ LET local == fs[files[idx]]
           entry == FileEntry(files[idx], content)
       IN  IF local.kind # "file"
             THEN Exit(1, "scan") /\ UNCHANGED <<idx, identicalFiles, changedFiles>>
           ELSE /\ identicalFiles' =
                     IF SameDigest(content, local) THEN Append(identicalFiles, entry)
                                                   ELSE identicalFiles
                /\ changedFiles' = Append(changedFiles, entry)
                /\ NextFile
    /\ UNCHANGED <<env, dirName, files, content, newFiles, selected,
                   filesToOverwrite, filesToWrite, widx, written, skipNotice,
                   summary, prompt>>

\* await destFile.text(), then the digest comparison; a throw is caught
\* by the catch around the loop
Text ==
    /\ pc = "text"
    /\ LET local == fs[files[idx]]
           entry == FileEntry(files[idx], content)
       IN  IF local.kind # "file"
             THEN Exit(1, "scan") /\ UNCHANGED <<idx, identicalFiles, changedFiles>>
           ELSE IF SameDigest(content, local)
             THEN /\ identicalFiles' = Append(identicalFiles, entry)
                  /\ UNCHANGED changedFiles
                  /\ NextFile
           ELSE /\ changedFiles' = Append(changedFiles, entry)
                /\ UNCHANGED identicalFiles
                /\ NextFile
    /\ UNCHANGED <<env, dirName, files, content, newFiles, selected,
                   filesToOverwrite, filesToWrite, widx, written, skipNotice,
                   summary, prompt>>

\* NonInteractiveOverwrite, were non-interactive to mean force-overwrite
NonInteractiveOverwrite_force(changed) == changed

\* let filesToOverwrite = [] is left as it is in non-interactive mode
NonInteractiveOverwrite(changed) == <<>>

\* after the decision: filesToWrite and the entry into the write loop
BeginWrite(over) ==
    /\ filesToOverwrite' = over
    /\ filesToWrite' = WriteList(newFiles, over)
    /\ widx' = 1
    /\ IF Len(WriteList(newFiles, over)) = 0 THEN Running("summary")
                                              ELSE Running("write")

\* the changed-file decision: p.multiselect, or the non-interactive skip
Resolve ==
    /\ pc = "resolve"
    /\ IF Len(changedFiles) = 0
         THEN BeginWrite(<<>>) /\ UNCHANGED <<selected, skipNotice, prompt>>
       ELSE IF interactive
         THEN /\ prompt' = [shown |-> TRUE,
                            options |-> PromptOptions(changedFiles),
                            initialValues |-> InitialValues(changedFiles)]
              /\ \E isCancel \in BOOLEAN, choice \in SUBSET PathsOf(changedFiles) :
                   IF isCancel
                     THEN /\ choice = {}
                          /\ Exit(0, "cancel")
                          /\ UNCHANGED <<selected, filesToOverwrite, filesToWrite,
                                         widx, skipNotice>>
                     ELSE /\ selected' = choice
                          /\ BeginWrite(OverwriteFilter(changedFiles, choice))
                          /\ UNCHANGED skipNotice
       ELSE /\ skipNotice' = [i \in 1..Len(changedFiles) |->
                                 DestPath(dirName, changedFiles[i].relativePath)]
            /\ BeginWrite(NonInteractiveOverwrite(changedFiles))
            /\ UNCHANGED <<selected, prompt>>
    /\ UNCHANGED <<env, dirName, files, idx, content, newFiles, identicalFiles,
                   changedFiles, written, summary>>

\* What a Bun.write that throws may leave at the path: the file as it was,
\* or a file created or truncated and not filled.
TornContent == "<partial>"
AfterFailedWrite(local) == {local, File(TornContent, Now)}

\* WriteFile, were a failure to undo the writes made before it
WriteFile_rollback ==
    /\ pc = "write"
    /\ LET file == filesToWrite[widx]
       IN  \E ok \in BOOLEAN :
              IF ok
                THEN /\ fs' = [fs EXCEPT ![file.relativePath] = File(file.content, Now)]
                     /\ written' = Append(written, file.relativePath)
                     /\ widx' = widx + 1
                     /\ IF widx = Len(filesToWrite) THEN Running("summary")
                                                    ELSE Running("write")
                ELSE /\ Exit(1, "write")
                     /\ fs' = [p \in DOMAIN fs |->
                                 IF p \in Range(written) THEN fs0[p] ELSE fs[p]]
                     /\ UNCHANGED <<written, widx>>
    /\ UNCHANGED <<args, manifest, dirExists, fs0, dir0, run, prev, dirName,
                   files, idx, content, newFiles, identicalFiles, changedFiles,
                   selected, filesToOverwrite, filesToWrite, skipNotice, summary, prompt>>

\* one iteration of the write loop: mkdir -p of the parent, Bun.write;
\* a throw is caught by the catch around the loop
WriteFile ==
    /\ pc = "write"
    /\ LET file == filesToWrite[widx]
       IN  \E ok \in BOOLEAN :
              IF ok
                THEN /\ fs' = [fs EXCEPT ![file.relativePath] = File(file.content, Now)]
                     /\ written' = Append(written, file.relativePath)
                     /\ widx' = widx + 1
                     /\ IF widx = Len(filesToWrite) THEN Running("summary")
                                                    ELSE Running("write")
                ELSE /\ Exit(1, "write")
                     /\ \E left \in AfterFailedWrite(fs[file.relativePath]) :
                           fs' = [fs EXCEPT ![file.relativePath] = left]
                     /\ UNCHANGED <<written, widx>>
    /\ UNCHANGED <<args, manifest, dirExists, fs0, dir0, run, prev, dirName,
                   files, idx, content, newFiles, identicalFiles, changedFiles,
                   selected, filesToOverwrite, filesToWrite, skipNotice, summary, prompt>>

\* the summary loop and the closing message
Summary ==
    /\ pc = "summary"
    /\ summary' = SummaryFrom(files, 1, dirName, identicalFiles, changedFiles,
                              filesToOverwrite)
    /\ pc' = "done"
    /\ exitCode' = 0
    /\ UNCHANGED <<failure, env, dirName, files, idx, content, newFiles,
                   identicalFiles, changedFiles, selected, filesToOverwrite,
                   filesToWrite, widx, written, skipNotice, prompt>>

\* the operator runs the command again in the directory the run left
Rerun ==
    /\ pc = "done"
    /\ run = 1
    /\ run' = 2
    /\ prev' = [completed |-> TRUE,
                new |-> PathsOf(newFiles),
                identical |-> PathsOf(identicalFiles),
                changed |-> PathsOf(changedFiles),
                overwritten |-> PathsOf(filesToOverwrite)]
    /\ args' \in ArgvSet
    /\ fs0' = fs
    /\ dir0' = dirExists
    /\ pc' = "start"
    /\ exitCode' = -1
    /\ failure' = "none"
    /\ dirName' = None
    /\ files' = <<>>
    /\ idx' = 0
    /\ content' = None
    /\ newFiles' = <<>>
    /\ identicalFiles' = <<>>
    /\ changedFiles' = <<>>
    /\ selected' = {}
    /\ filesToOverwrite' = <<>>
    /\ filesToWrite' = <<>>
    /\ widx' = 0
    /\ written' = <<>>
    /\ skipNotice' = <<>>
    /\ summary' = <<>>
    /\ prompt' = NoPrompt
    /\ UNCHANGED <<manifest, fs, dirExists>>

\* another process removes the file between destFile.exists() and
\* destFile.text()
OutsideRemove ==
    /\ pc = "text"
    /\ FileExists(fs[files[idx]])
    /\ fs' = [fs EXCEPT ![files[idx]] = Absent]
    /\ UNCHANGED <<args, manifest, dirExists, fs0, dir0, run, prev, pc,
                   exitCode, failure, runVars>>

Next ==
    \/ ParseArgs
    \/ FetchList
    \/ ChooseSet
    \/ FetchFiles
    \/ Mkdir
    \/ Download
    \/ Exists
    \/ Text
    \/ Resolve
    \/ WriteFile
    \/ Summary

\* one run of the command
Spec == Init /\ [][Next]_vars

\* one run, with another process removing files while they are scanned
SpecRace == Init /\ [][Next \/ OutsideRemove]_vars

\* a run, and a second run against the directory the first one left
SpecResync == Init /\ [][Next \/ Rerun]_vars

TypeOK ==
    /\ pc \in {"start", "fetchList", "listed", "fetchFiles", "mkdir", "download",
               "exists", "text", "resolve", "write", "summary", "done", "exit"}
    /\ exitCode \in {-1, 0, 1}
    /\ run \in {1, 2}

(* ------------------------------ claims -------------------------------- *)

\* the classification loop has run to its end
ClassificationComplete ==
    \/ pc \in {"resolve", "write", "summary", "done"}
    \/ pc = "exit" /\ failure \in {"cancel", "write"}

NewPaths == PathsOf(newFiles)
IdenticalPaths == PathsOf(identicalFiles)
ChangedPaths == PathsOf(changedFiles)

\* C1: when the classification loop completes, every manifest entry is in
\* exactly one of newFiles, identicalFiles, changedFiles: the buckets are
\* pairwise disjoint by relativePath and their sizes add up to the number
\* of manifest entries.
C1_Partition ==
    ClassificationComplete =>
      /\ files = manifest
      /\ Len(newFiles) + Len(identicalFiles) + Len(changedFiles) = Len(manifest)
      /\ NewPaths \cap IdenticalPaths = {}
      /\ NewPaths \cap ChangedPaths = {}
      /\ IdenticalPaths \cap ChangedPaths = {}
      /\ NewPaths \cup IdenticalPaths \cup ChangedPaths = Range(manifest)

C1_Witness ==
    /\ pc = "resolve"
    /\ Len(newFiles) = 1 /\ Len(identicalFiles) = 1 /\ Len(changedFiles) = 1

\* C3: in a non-interactive run no Changed file is approved or written, its
\* local content stays what it was at scan time, no local content that
\* differs from the remote is ever overwritten, and the summary reports each
\* Changed file as skipped.
C3_NonInteractiveSkips ==
    ~interactive =>
      /\ filesToOverwrite = <<>>
      /\ \A p \in ChangedPaths : p \notin Range(written) /\ fs[p] = fs0[p]
      /\ \A p \in Paths :
            (fs0[p].kind = "file" /\ fs0[p].content # RemoteContent(p))
               => fs[p] = fs0[p]
      /\ pc = "done" =>
            \A i \in 1..Len(files) :
               files[i] \in ChangedPaths =>
                  /\ i <= Len(summary)
                  /\ summary[i] = [path |-> DestPath(dirName, files[i]),
                                   status |-> "skipped"]

C3_Witness ==
    /\ ~interactive
    /\ pc = "done"
    /\ Len(changedFiles) >= 1
    /\ Len(written) >= 1

\* C7: an entry is New iff no local file exists at its path, Identical iff
\* the local file exists with the remote content, Changed iff it exists with
\* another content; neither the local modification time nor any other entry
\* has a say.
C7_ClassificationRule ==
    \A i \in 1..Len(files) :
       i < idx =>
         LET p == files[i]
             local == fs0[p]
         IN  /\ p \in NewPaths <=> local.kind = "absent"
             /\ p \in IdenticalPaths <=>
                  (local.kind = "file" /\ local.content = RemoteContent(p))
             /\ p \in ChangedPaths <=>
                  (local.kind = "file" /\ local.content # RemoteContent(p))

C7_Witness ==
    /\ pc = "resolve"
    /\ \E p \in IdenticalPaths : fs0[p].mtime = MaxMtime
    /\ \E p \in IdenticalPaths : fs0[p].mtime = 0
    /\ \E p \in ChangedPaths : fs0[p].mtime = 0

\* the paths the operator approved for overwrite
Approved == ChangedPaths \cap selected

\* a step taken once the write loop is entered
WritingRunsOn ==
    pc \in {"write", "summary"}
      => \/ pc' \in {"write", "summary", "done"}
         \/ pc' = "exit" /\ failure' = "write" /\ exitCode' = 1

\* a step that ends the run with exit code 0 after mkdir
CleanStopIsCancel ==
    (pc \in {"download", "exists", "text", "resolve", "write", "summary"}
       /\ pc' = "exit" /\ exitCode' = 0)
      => (pc = "resolve" /\ failure' = "cancel")

\* C4: a cancel of the changed-file selection ends the run with no file
\* written and no line reported; an operator abort only happens before the
\* first write, and once the write loop is entered the run either goes on to
\* its summary or hard-fails on a write.
C4_CancelAtomicity ==
    /\ [](pc = "exit" /\ failure \in {"cancel", "selectCancel"}
            => /\ exitCode = 0
               /\ written = <<>>
               /\ fs = fs0
               /\ summary = <<>>
               /\ skipNotice = <<>>)
    /\ [][WritingRunsOn]_vars
    /\ [][CleanStopIsCancel]_vars

C4_Witness ==
    /\ pc = "exit"
    /\ failure = "cancel"
    /\ Len(newFiles) >= 1
    /\ Len(changedFiles) >= 2

\* C5: filesToWrite holds exactly the New files and the Changed files the
\* operator approved; the write loop writes nothing else and, when it
\* completes, has written all of them; Identical files and Changed files not
\* approved keep their local state; a selection only ever names Changed files.
C5_WriteSetExact ==
    /\ selected \subseteq ChangedPaths
    /\ Range(written) \subseteq NewPaths \cup Approved
    /\ Len(written) = Cardinality(Range(written))
    /\ (pc \in {"write", "summary", "done"} \/ (pc = "exit" /\ failure = "write"))
         => PathsOf(filesToWrite) = NewPaths \cup Approved
    /\ pc \in {"summary", "done"} => Range(written) = NewPaths \cup Approved
    /\ \A p \in Paths :
          IF p \in Range(written) THEN fs[p] = File(RemoteContent(p), Now)
          ELSE IF pc = "exit" /\ failure = "write"
                    /\ p = filesToWrite[widx].relativePath
            THEN fs[p] \in AfterFailedWrite(fs0[p])
          ELSE fs[p] = fs0[p]
    /\ \A p \in IdenticalPaths \cup (ChangedPaths \ selected) : fs[p] = fs0[p]

C5_Witness ==
    /\ pc = "done"
    /\ Len(newFiles) = 1
    /\ Len(changedFiles) = 2
    /\ Cardinality(selected) = 1

\* the status the reporter owes a manifest entry
ExpectedStatus(p) ==
    CASE p \in IdenticalPaths -> "unchanged"
      [] p \in NewPaths -> "written"
      [] p \in ChangedPaths /\ p \in selected -> "written"
      [] p \in ChangedPaths /\ p \notin selected -> "skipped"
      [] OTHER -> "none"

\* C6: a completed run has emitted exactly one status line per manifest
\* entry, in manifest order: unchanged for Identical, written for New and for
\* Changed with overwrite, skipped for Changed without; before completion no
\* status line is emitted.
C6_Reporter ==
    /\ pc # "done" => summary = <<>>
    /\ pc = "done" =>
         /\ Len(summary) = Len(manifest)
         /\ \A i \in 1..Len(manifest) :
               summary[i] = [path |-> DestPath(dirName, manifest[i]),
                             status |-> ExpectedStatus(manifest[i])]
         /\ \A i \in 1..Len(manifest) :
               Cardinality({ b \in {NewPaths, IdenticalPaths, Approved,
                                    ChangedPaths \ selected} : manifest[i] \in b }) = 1

C6_Witness ==
    /\ pc = "done"
    /\ Len(manifest) = 3
    /\ manifest[1] \in ChangedPaths \ selected
    /\ manifest[2] \in NewPaths
    /\ manifest[3] \in IdenticalPaths

\* the state of the scenario: manifest [a.txt=X, b.txt=Y, c.txt=Z], the
\* target root with a.txt=X, b.txt=Q and no c.txt, a non-interactive run
Scenario ==
    /\ manifest = << <<"a.txt">>, <<"b.txt">>, <<"c.txt">> >>
    /\ RemoteContent(<<"a.txt">>) = "X"
    /\ RemoteContent(<<"b.txt">>) = "Y"
    /\ RemoteContent(<<"c.txt">>) = "Z"
    /\ fs0[<<"a.txt">>].kind = "file" /\ fs0[<<"a.txt">>].content = "X"
    /\ fs0[<<"b.txt">>].kind = "file" /\ fs0[<<"b.txt">>].content = "Q"
    /\ fs0[<<"c.txt">>] = Absent
    /\ ~interactive

ScenarioBuckets ==
    /\ newFiles = << FileEntry(<<"c.txt">>, "Z") >>
    /\ identicalFiles = << FileEntry(<<"a.txt">>, "X") >>
    /\ changedFiles = << FileEntry(<<"b.txt">>, "Y") >>

Statuses == [i \in 1..Len(summary) |-> summary[i].status]

\* C8 as stated: in the scenario the buckets are New=[c], Identical=[a],
\* Changed=[b] and the statuses of a, b, c are written, skipped, written.
C8_AsStated ==
    (Scenario /\ pc = "done") =>
       /\ ScenarioBuckets
       /\ Statuses = <<"written", "skipped", "written">>

\* C8 (amended): in the scenario the buckets are New=[c], Identical=[a],
\* Changed=[b] and the statuses of a, b, c are unchanged, skipped, written,
\* in manifest order.
C8_Scenario ==
    (Scenario /\ pc = "done") =>
       /\ ScenarioBuckets
       /\ Statuses = <<"unchanged", "skipped", "written">>
       /\ \A i \in 1..3 : summary[i].path = DestPath(dirName, manifest[i])

C8_Witness == Scenario /\ pc = "done" /\ Len(summary) = 3

\* C9: when the remote manifest cannot be obtained (the list of sets, the
\* list of files or a download fails) the run aborts with the local
\* filesystem, the existence of the target directory included, as it was
\* before the run.
C9_NoMutationOnSourceFailure ==
    (pc = "exit" /\ failure \in {"fetchList", "fetchFiles", "download"}) =>
       /\ exitCode = 1
       /\ fs = fs0
       /\ dirExists = dir0

\* C10: when reading the local state of an entry fails, the run stops with
\* nothing written, files already classified New included, and with no
\* status line.
C10_ScanFailureWritesNothing ==
    (pc = "exit" /\ failure = "scan") =>
       /\ exitCode = 1
       /\ written = <<>>
       /\ filesToWrite = <<>>
       /\ fs = fs0
       /\ summary = <<>>
       /\ skipNotice = <<>>

C10_Witness ==
    /\ pc = "exit"
    /\ failure = "scan"
    /\ Len(newFiles) >= 1
    /\ Len(changedFiles) >= 1

\* C2 as stated: a second run of the same manifest against the directory a
\* completed run left classifies no file Changed (all Identical) and writes
\* nothing.
C2_AsStated ==
    (run = 2 /\ ClassificationComplete) =>
       /\ changedFiles = <<>>
       /\ IdenticalPaths = Range(manifest)
       /\ written = <<>>

\* the files the first run left skipped
PrevSkipped == prev.changed \ prev.overwritten

\* C2 (amended): the second run classifies no file New, classifies Changed
\* exactly the files the first run skipped and Identical every other file;
\* it writes only still-Changed files the operator approves, hence nothing in
\* non-interactive mode, and nothing at all when the first run skipped none.
C2_Resync ==
    run = 2 =>
       /\ prev.completed
       /\ newFiles = <<>>
       /\ ChangedPaths \subseteq PrevSkipped
       /\ IdenticalPaths \subseteq Range(manifest) \ PrevSkipped
       /\ ClassificationComplete =>
            /\ ChangedPaths = PrevSkipped
            /\ IdenticalPaths = Range(manifest) \ PrevSkipped
       /\ Range(written) \subseteq Approved
       /\ ~interactive => written = <<>>
       /\ PrevSkipped = {} => (changedFiles = <<>> /\ written = <<>>)

C2_Witness ==
    /\ run = 2
    /\ pc = "done"
    /\ prev.new # {}
    /\ prev.overwritten # {}
    /\ PrevSkipped # {}
    /\ written = <<>>

C12_MissingIsNew ==
    /\ (pc = "exit" /\ failure = "scan") => FileExists(fs[files[idx]])
    /\ \A i \in 1..Len(files) :
          (i < idx /\ ~FileExists(fs[files[i]]) /\ written = <<>>)
             => files[i] \in NewPaths

\* the path's file name is PROMPT.md, at any depth
IsNamedPromptMd(p) ==
    /\ p[Len(p)] = "PROMPT.md"
    /\ Len(p) = 1 \/ p[Len(p) - 1] = "/"

\* the path's text ends with PROMPT.md
HasPromptMdSuffix(p) == p[Len(p)] = "PROMPT.md"

\* the operator accepted the selection the prompt came up with
DefaultsAccepted ==
    prompt.shown /\ pc = "done" /\ selected = Range(prompt.initialValues)

\* the changed-file decision has been taken or abandoned
Resolved ==
    \/ pc \in {"write", "summary", "done"}
    \/ pc = "exit" /\ failure \in {"cancel", "write"}

\* C13 as stated: the prompt offers exactly the Changed files and pre-selects
\* exactly the Changed files named PROMPT.md (at any depth).
C13_AsStated ==
    prompt.shown =>
       /\ prompt.options = PathSeq(changedFiles)
       /\ Range(prompt.initialValues) = { p \in ChangedPaths : IsNamedPromptMd(p) }

\* C13 (amended): in interactive mode with at least one Changed file the
\* prompt offers exactly the Changed files and pre-selects exactly those
\* whose relative path ends with "PROMPT.md"; accepting the defaults
\* overwrites exactly these and skips every other Changed file.
C13_DefaultSelection ==
    /\ (Resolved /\ interactive /\ changedFiles # <<>>) <=> prompt.shown
    /\ prompt.shown =>
         /\ prompt.options = PathSeq(changedFiles)
         /\ Range(prompt.initialValues) = { p \in ChangedPaths : HasPromptMdSuffix(p) }
    /\ DefaultsAccepted =>
         \A i \in 1..Len(manifest) :
            LET p == manifest[i]
            IN  p \in ChangedPaths =>
                  IF HasPromptMdSuffix(p)
                    THEN /\ p \in Range(written)
                         /\ fs[p] = File(RemoteContent(p), Now)
                         /\ summary[i].status = "written"
                    ELSE /\ p \notin Range(written)
                         /\ fs[p] = fs0[p]
                         /\ summary[i].status = "skipped"

C13_Witness ==
    /\ DefaultsAccepted
    /\ ChangedPaths = { <<"docs", "/", "PROMPT.md">>, <<"MY_", "PROMPT.md">>,
                        <<"README.md">> }

\* the command line has --name or -n followed by a name
NameGiven(a) ==
    \E i \in 1..Len(a) : a[i] \in {"--name", "-n"} /\ i < Len(a) /\ a[i + 1] # ""

\* the command line has --list or -l
ListGiven(a) == \E i \in 1..Len(a) : a[i] \in {"--list", "-l"}

\* the command line asks for the usage text, which ends the run at once
HelpGiven == requestedName = "<help>"

\* C14: the run is interactive iff neither --name/-n <name> nor --list/-l
\* was given; a run started with --name <name> never shows the changed-file
\* prompt and never overwrites a local file whose content differs from the
\* remote.
C14_ModeDerivation ==
    /\ ~HelpGiven => (interactive <=> (~NameGiven(args) /\ ~ListGiven(args)))
    /\ NameGiven(args) =>
         /\ ~prompt.shown
         /\ selected = {}
         /\ \A p \in Paths :
               (fs0[p].kind = "file" /\ fs0[p].content # RemoteContent(p))
                  => fs[p] = fs0[p]

C14_Witness ==
    /\ NameGiven(args)
    /\ pc = "done"
    /\ Len(changedFiles) >= 2
    /\ Len(written) >= 1

\* C15: at the summary of a run with no outside change, every entry
\* reported written or unchanged has the remote content locally, every entry
\* reported skipped has the local state it had at scan time, and written is
\* only reported for a file whose write succeeded.
C15_Convergence ==
    pc = "done" =>
       \A i \in 1..Len(manifest) :
          LET p == manifest[i]
              status == summary[i].status
          IN  /\ status \in {"written", "unchanged", "skipped"}
              /\ status \in {"written", "unchanged"} =>
                    (fs[p].kind = "file" /\ fs[p].content = RemoteContent(p))
              /\ status = "skipped" => fs[p] = fs0[p]
              /\ status = "written" <=> p \in Range(written)

C15_Witness ==
    /\ pc = "done"
    /\ interactive
    /\ Range(Statuses) = {"written", "unchanged", "skipped"}
    /\ \E p \in Approved : p \in Range(written)

\* the write loop has been entered
WriteLoopEntered ==
    \/ pc \in {"write", "summary", "done"}
    \/ pc = "exit" /\ failure = "write"

\* all New files in manifest order, then all approved Changed files in
\* manifest order
ExpectedWriteOrder ==
    LET isNew(p) == p \in NewPaths
        isApproved(p) == p \in Approved
    IN  SelectSeq(manifest, isNew) \o SelectSeq(manifest, isApproved)

\* C16: files are written one at a time, all New files in manifest order and
\* then all approved Changed files in manifest order; at every point, after
\* a write failure too, the files written are a prefix of that sequence, so
\* no Changed file is touched before every New file is written.
C16_WriteOrder ==
    /\ ~WriteLoopEntered => written = <<>>
    /\ WriteLoopEntered =>
         /\ PathSeq(filesToWrite) = ExpectedWriteOrder
         /\ Len(written) <= Len(ExpectedWriteOrder)
         /\ written = SubSeq(ExpectedWriteOrder, 1, Len(written))
    /\ \A p \in ChangedPaths :
          (p \in Range(written) \/ fs[p] # fs0[p]) => NewPaths \subseteq Range(written)

\* the written paths in the order the manifest lists them
WrittenInManifestOrder ==
    LET isWritten(p) == p \in Range(written)
    IN  SelectSeq(manifest, isWritten)

C16_Witness ==
    /\ pc = "exit"
    /\ failure = "write"
    /\ Len(written) = 2
    /\ written # WrittenInManifestOrder
    /\ written[2] \in ChangedPaths

====
